---------------------------- MODULE Spec2Model ----------------------------
(***************************************************************************)
(* Episode-reward tracking and checkpoint cadence of adept's containers.   *)
(*                                                                         *)
(*   src/adept/containers/_base.py       CountsRewards, LogsRewards,       *)
(*                                       WritesSummaries, SavesModels      *)
(*   src/adept/containers/evaluation.py  Evaluation, EvalContainer         *)
(*                                                                         *)
(* Rewards are small integers: every value and every partial sum of the    *)
(* model is exactly representable in the float32 tensor the code keeps,    *)
(* so "+=" on the tensor is integer addition here.  An info dict is a set  *)
(* of keys; the empty set is the empty (falsy) dict.  The environment tags *)
(* a non-empty info of slot i with i, so that the pairing of rewards and   *)
(* infos can be observed.  Time is counted in ticks of a clock that never  *)
(* runs backwards.                                                         *)
(***************************************************************************)
EXTENDS Integers, Sequences, FiniteSets

(* nb_env: the batch size N, fixed for a session. *)
NbEnv == 2

(* Bounds of the model. *)
MaxIngest == 3
MaxEnvSteps == 4
MaxPassSteps == 2
MaxStep == 6
MaxEpochLen == 3
MaxClock == 8
MaxFrequency == 2
MaxLogLines == 1
MaxElapsed == 2
MaxBatchCalls == 2
MaxSaves == 3

Slots == 0 .. (NbEnv - 1)
Rewards == {0, 1}
StepCounts == -1 .. MaxStep
EpochLens == 1 .. MaxEpochLen

(* An epoch_len of zero next to a positive one: the code accepts both. *)
AnyEpochLens == 0 .. 1

Frequencies == 1 .. MaxFrequency

(* What log_episode_results can be handed: the completed rewards of one
   update_buffers call; a rank and a local step count, each absent (None,
   the empty set) or supplied (the set of its value); the step counts. *)
CompletedRewards == UNION {[1 .. n -> Rewards] : n \in 0 .. NbEnv}
Ranks == {{}, {0}, {1}}
GlobalStepCounts == {4}
LocalStepCounts == {{}, {2}}
InitialStepCounts == {0}

(* time() - self.start_time at a call, in ticks: the rewards handed in come
   from environment steps taken after start_time, so time has moved on. *)
Elapsed == 1 .. MaxElapsed

(* The step counts a restored session continues from. *)
RestoredCounts == {0, 3}

(* The log directories evaluated: one or two epochs, each holding up to
   two network files; a directory is the sequence of its epochs' counts. *)
LogDirs == UNION {[1 .. n -> 0 .. 2] : n \in 1 .. 2}

VARIABLES
    (* CountsRewards *)
    episode_reward_buffer,      \* _episode_reward_buffer, a tensor of nb_env sums
    local_step_count,           \* _local_step_count
    terminal_rewards,           \* first list returned by the last update_buffers
    terminal_infos,             \* second list returned by the last update_buffers
    (* the arguments of the last update_buffers call *)
    rewards, terminals, infos,
    (* observers of the reward stream *)
    prev_buffer,                \* the buffer as it was before the last ingest
    ingested,                   \* per slot, sum of all raw rewards passed in
    emitted,                    \* per slot, sum of all completed rewards returned
    nb_ingest,                  \* number of update_buffers calls so far
    count_base,                 \* observer: local_step_count when it was last set
    nb_since,                   \* observer: number of update_buffers calls since
    container,                  \* the class of the object: "CountsRewards",
                                \* "Evaluation" or "EvalContainer"
    (* Evaluation *)
    episode_complete_statuses,  \* one boolean per slot
    ev_pc,                      \* "constructed", "loop", "done": position of run()
    ev_result,                  \* what run() returned: mean and deviation
    (* observers of an evaluation pass *)
    env_steps,                  \* number of environment.step calls of the pass
    prev_statuses,              \* the statuses as they were before the last ingest
    first_done,                 \* per slot, the step of its first terminal with info (0: none)
    upto_done,                  \* per slot, sum of the rewards of the steps up to that one
    (* EvalContainer.run: its locals and the files it reads and writes *)
    log_dir,                    \* the log directory read through log_dir_helper
    ec_pc,                      \* "epochs", "nets", "loop", "finished": position of run()
    epoch_id,                   \* current epoch of log_dir_helper.epochs() (0: none yet)
    nb_nets,                    \* number of network paths at the current epoch
    net_pos,                    \* how many of them have been started
    reward_buf,                 \* reward_buf
    episode_completes,          \* episode_completes
    best_mean, best_std, selected_model,
    pass_mean, pass_std,        \* mean and std of the last finished pass
    best_epoch_id, overall_mean,
    eval_log,                   \* the lines appended to eval_path()
    (* observers of a container pass *)
    pass_steps,                 \* number of env_mgr.step calls of the pass
    pass_done,                  \* per slot, the pass has seen its terminal with info
    pass_upto,                  \* per slot, sum of the pass's rewards up to that step
    epoch_passes,               \* per finished pass of the epoch: the mean and std of
                                \* the rewards of that pass, and its network file
    passes_log,                 \* per finished epoch, its epoch_passes
    ops,                        \* the operations of the pass so far, in order
    (* SavesModels *)
    next_save,                  \* _next_save
    epoch_len,                  \* the epoch_len property of the container
    nb_saved,                   \* number of saver.save_state_dicts invocations
    sv_pc,                      \* "idle", or "set_next_save" inside its while loop
    sv_arg,                     \* initial_count of the set_next_save in progress
    last_op,                    \* observer: the last completed SavesModels call
    prev_op,                    \* observer: the completed call before it
    (* WritesSummaries *)
    clock,                      \* what time() returns now
    prev_summary_time,          \* _prev_summary_time
    summary_frequency,          \* the summary_frequency property of the container
    nb_written,                 \* number of calls that wrote to summary_writer
    ws_call,                    \* observer: the last write_summaries call
    emit_times,                 \* observer: cur_time of the last two calls that wrote
    (* LogsRewards *)
    logger,                     \* the lines written through logger.info
    nb_mean,                    \* number of np.mean evaluations
    nb_rate,                    \* number of divisions by delta_t
    lr_call,                    \* observer: the last log_episode_results call
    lr_return,                  \* what that call returned
    (* update_buffers handed lists of any length *)
    raised,                     \* the exception the last update_buffers call raised
    prev_count                  \* observer: local_step_count before that call

train_vars == <<episode_reward_buffer, local_step_count, terminal_rewards,
                terminal_infos, rewards, terminals, infos, prev_buffer,
                ingested, emitted, nb_ingest, count_base, nb_since, container>>
eval_vars == <<episode_complete_statuses, ev_pc, ev_result, env_steps,
               prev_statuses, first_done, upto_done>>
ec_vars == <<log_dir, ec_pc, epoch_id, nb_nets, net_pos, reward_buf, episode_completes,
             best_mean, best_std, selected_model, pass_mean, pass_std,
             best_epoch_id, overall_mean, eval_log, pass_steps, pass_done,
             pass_upto, epoch_passes, passes_log>>
save_vars == <<next_save, epoch_len, nb_saved, sv_pc, sv_arg, last_op, prev_op>>
sum_vars == <<clock, prev_summary_time, summary_frequency, nb_written, ws_call,
              emit_times>>
report_vars == <<logger, nb_mean, nb_rate, lr_call, lr_return>>
batch_vars == <<raised, prev_count>>
trace_vars == <<ops>>
aux_vars == <<sum_vars, report_vars, batch_vars, trace_vars>>
vars == <<train_vars, eval_vars, ec_vars, save_vars, aux_vars>>

-----------------------------------------------------------------------------
(* Helpers *)

Zeros == [i \in Slots |-> 0]
AllFalse == [i \in Slots |-> FALSE]
NoInfos == [i \in Slots |-> {}]

(* The info values the environment can report for slot i. *)
InfosOf(i) == {{}, {i}}

(* What one environment.step can return: rewards, terminals and infos. *)
RewardVecs == [Slots -> Rewards]
TerminalVecs == [Slots -> BOOLEAN]
InfoVecs == {f \in [Slots -> SUBSET Slots] : \A i \in Slots : f[i] \in InfosOf(i)}

(* Python's all() over a vector of booleans. *)
All(bs) == \A i \in Slots : bs[i]

(* Sum of a vector over the slots from i on. *)
RECURSIVE SumFrom(_, _)
SumFrom(v, i) == IF i >= NbEnv THEN 0 ELSE v[i] + SumFrom(v, i + 1)

Max(a, b) == IF a >= b THEN a ELSE b

(* The largest entry of a vector of naturals. *)
RECURSIVE MaxFrom(_, _)
MaxFrom(v, i) == IF i >= NbEnv THEN 0 ELSE Max(v[i], MaxFrom(v, i + 1))

(* Python truthiness of an info dict: non-empty. *)
Truthy(info) == info # {}

(* Sum of the entries of the sequence of integers xs at the positions idx. *)
RECURSIVE SumAt(_, _)
SumAt(xs, idx) ==
    IF idx = {} THEN 0
    ELSE LET k == CHOOSE k \in idx : TRUE IN xs[k] + SumAt(xs, idx \ {k})

(* Observer: what a returned (terminal_rewards, terminal_infos) pair holds
   for slot i, the returned infos being tagged with their slot. *)
ReturnedFor(i, tr, ti) == SumAt(tr, {k \in DOMAIN tr : ti[k] = {i}})

-----------------------------------------------------------------------------
(* CountsRewards.update_buffers, _base.py 65-77 *)

(* line 66: self.episode_reward_buffer += torch.tensor(rewards).float() *)
AddRewards(buf, rs) == [i \in Slots |-> buf[i] + rs[i]]

(* A plausible slip: a terminal flag alone ends the episode. *)
EpisodeDone_TerminalOnly(done, info) == done

(* line 73: if done and info *)
EpisodeDone(done, info) == done /\ Truthy(info)

(* A plausible slip: a completed sum is put in front of the list. *)
EmitAndZero_Prepend(st, i, info) ==
    [buf |-> [st.buf EXCEPT ![i] = 0],
     tr  |-> <<st.buf[i]>> \o st.tr,
     ti  |-> <<info>> \o st.ti]

(* A plausible slip: the slot is not zeroed after its sum is appended. *)
EmitAndZero_NoZero(st, i, info) ==
    [buf |-> st.buf,
     tr  |-> Append(st.tr, st.buf[i]),
     ti  |-> Append(st.ti, info)]

(* lines 74-76 for slot i, on the loop state st = [buf, tr, ti]: append the
   slot's sum (ep_reward.item()) and its info, then zero the slot in place. *)
EmitAndZero(st, i, info) ==
    [buf |-> [st.buf EXCEPT ![i] = 0],
     tr  |-> Append(st.tr, st.buf[i]),
     ti  |-> Append(st.ti, info)]

(* lines 70-76: the zip loop from slot i on. *)
RECURSIVE ZipLoop(_, _, _, _)
ZipLoop(i, st, ts, is) ==
    IF i >= NbEnv THEN st
    ELSE ZipLoop(i + 1,
                 IF EpisodeDone(ts[i], is[i]) THEN EmitAndZero(st, i, is[i]) ELSE st,
                 ts, is)

(* A plausible slip: the count advances by one per call. *)
AdvanceCount_PerCall(count) == count + 1

(* line 67: self.local_step_count += self.nb_env *)
AdvanceCount(count) == count + NbEnv

CountsRewards_update_buffers(rs, ts, is) ==
    LET added == AddRewards(episode_reward_buffer, rs)
        out == ZipLoop(0, [buf |-> added, tr |-> <<>>, ti |-> <<>>], ts, is)
    IN  /\ container = "CountsRewards"
        /\ nb_ingest < MaxIngest
        /\ episode_reward_buffer' = out.buf
        /\ local_step_count' = AdvanceCount(local_step_count)
        /\ terminal_rewards' = out.tr
        /\ terminal_infos' = out.ti
        /\ rewards' = rs
        /\ terminals' = ts
        /\ infos' = is
        /\ prev_buffer' = episode_reward_buffer
        /\ ingested' = [i \in Slots |-> ingested[i] + rs[i]]
        /\ emitted' = [i \in Slots |-> emitted[i] + ReturnedFor(i, out.tr, out.ti)]
        /\ nb_ingest' = nb_ingest + 1
        /\ nb_since' = nb_since + 1
        /\ UNCHANGED <<count_base, container>>

(* set_local_step_count, lines 79-80 *)
set_local_step_count(step_count) ==
    /\ container = "CountsRewards"
    /\ local_step_count' = step_count
    /\ count_base' = step_count
    /\ nb_since' = 0
    /\ UNCHANGED <<episode_reward_buffer, terminal_rewards, terminal_infos, rewards,
                   terminals, infos, prev_buffer, ingested, emitted, nb_ingest,
                   container>>

Ingest ==
    \E rs \in RewardVecs, ts \in TerminalVecs :
        \E is \in InfoVecs :
            /\ CountsRewards_update_buffers(rs, ts, is)
            /\ UNCHANGED <<eval_vars, ec_vars, save_vars, aux_vars>>

SetLocalStepCount ==
    \E c \in RestoredCounts :
        /\ set_local_step_count(c)
        /\ UNCHANGED <<eval_vars, ec_vars, save_vars, aux_vars>>

-----------------------------------------------------------------------------
(* Evaluation, evaluation.py 223-273 *)

(* A plausible slip: a terminal flag alone completes the slot. *)
EvalEpisodeDone_TerminalOnly(done, info) == done

(* line 268: elif terminals[i] and infos[i] *)
EvalEpisodeDone(done, info) == done /\ Truthy(info)

(* A plausible slip: a slot that is complete keeps accumulating. *)
EvalSlot_NoSkip(st, i, r, done, info) ==
    IF EvalEpisodeDone(done, info)
    THEN [buf |-> [st.buf EXCEPT ![i] = @ + r],
          status |-> [st.status EXCEPT ![i] = TRUE]]
    ELSE [buf |-> [st.buf EXCEPT ![i] = @ + r], status |-> st.status]

(* A plausible slip: the reward of the terminal step is not added. *)
EvalSlot_DropTerminalReward(st, i, r, done, info) ==
    IF st.status[i] THEN st
    ELSE IF EvalEpisodeDone(done, info)
    THEN [buf |-> st.buf, status |-> [st.status EXCEPT ![i] = TRUE]]
    ELSE [buf |-> [st.buf EXCEPT ![i] = @ + r], status |-> st.status]

(* lines 266-272 for slot i, on the loop state st = [buf, status] *)
EvalSlot(st, i, r, done, info) ==
    IF st.status[i] THEN st
    ELSE IF EvalEpisodeDone(done, info)
    THEN [buf |-> [st.buf EXCEPT ![i] = @ + r],
          status |-> [st.status EXCEPT ![i] = TRUE]]
    ELSE [buf |-> [st.buf EXCEPT ![i] = @ + r], status |-> st.status]

(* line 265: for i in range(len(rewards)), from slot i on *)
RECURSIVE EvalLoop(_, _, _, _, _)
EvalLoop(i, st, rs, ts, is) ==
    IF i >= NbEnv THEN st
    ELSE EvalLoop(i + 1, EvalSlot(st, i, rs[i], ts[i], is[i]), rs, ts, is)

(* Evaluation.update_buffers, lines 255-273 *)
Evaluation_update_buffers(rs, ts, is) ==
    LET out == EvalLoop(0, [buf |-> episode_reward_buffer,
                            status |-> episode_complete_statuses], rs, ts, is)
    IN  /\ episode_reward_buffer' = out.buf
        /\ episode_complete_statuses' = out.status
        /\ rewards' = rs
        /\ terminals' = ts
        /\ infos' = is
        /\ prev_buffer' = episode_reward_buffer
        /\ prev_statuses' = episode_complete_statuses
        /\ ingested' = [i \in Slots |-> ingested[i] + rs[i]]
        /\ nb_ingest' = nb_ingest + 1
        /\ UNCHANGED <<local_step_count, terminal_rewards, terminal_infos, emitted,
                       count_base, nb_since>>

(* np.mean of the buffer, as the fraction num / den *)
Mean(buf) == [num |-> SumFrom(buf, 0), den |-> NbEnv]

(* np.std of the buffer: the square root of the fraction num / den *)
StdSquared(buf) ==
    [num |-> NbEnv * SumFrom([i \in Slots |-> buf[i] * buf[i]], 0)
               - SumFrom(buf, 0) * SumFrom(buf, 0),
     den |-> NbEnv * NbEnv]

NoResult == [mean |-> [num |-> 0, den |-> 1], std2 |-> [num |-> 0, den |-> 1]]

(* A plausible slip: the loop runs until any slot is complete. *)
KeepStepping_Any(statuses) == \A i \in Slots : ~statuses[i]

(* line 241: while not all(self.episode_complete_statuses) *)
KeepStepping(statuses) == ~All(statuses)

(* run(), line 240: next_obs = self.environment.reset() *)
Evaluation_reset ==
    /\ container = "Evaluation"
    /\ ev_pc = "constructed"
    /\ ev_pc' = "loop"
    /\ ops' = Append(ops, "reset")
    /\ UNCHANGED <<train_vars, ec_vars, save_vars, sum_vars, report_vars, batch_vars,
                   episode_complete_statuses, ev_result,
                   env_steps, prev_statuses, first_done, upto_done>>

(* run(), lines 242-247: the calls of one iteration, in order *)
Iteration == <<"act", "step", "reset_internals", "ingest">>

(* run(), lines 241-247: one iteration: act_eval, environment.step (which
   returns rs, ts, is), reset_internals, update_buffers *)
Evaluation_step ==
    /\ container = "Evaluation"
    /\ ev_pc = "loop"
    /\ KeepStepping(episode_complete_statuses)
    /\ env_steps < MaxEnvSteps
    /\ \E rs \in RewardVecs, ts \in TerminalVecs :
         \E is \in InfoVecs :
            /\ Evaluation_update_buffers(rs, ts, is)
            /\ env_steps' = env_steps + 1
            /\ first_done' = [i \in Slots |->
                    IF first_done[i] = 0 /\ ts[i] /\ is[i] # {}
                    THEN env_steps + 1 ELSE first_done[i]]
            /\ upto_done' = [i \in Slots |->
                    IF first_done[i] = 0 THEN upto_done[i] + rs[i] ELSE upto_done[i]]
    /\ ops' = ops \o Iteration
    /\ UNCHANGED <<container, ec_vars, save_vars, sum_vars, report_vars, batch_vars,
                   ev_pc, ev_result>>

(* run(), lines 241 and 249-253: the loop ends and the statistics are returned *)
Evaluation_return ==
    /\ container = "Evaluation"
    /\ ev_pc = "loop"
    /\ ~KeepStepping(episode_complete_statuses)
    /\ ev_pc' = "done"
    /\ ev_result' = [mean |-> Mean(episode_reward_buffer),
                     std2 |-> StdSquared(episode_reward_buffer)]
    /\ UNCHANGED <<train_vars, ec_vars, save_vars, aux_vars, episode_complete_statuses,
                   env_steps, prev_statuses, first_done, upto_done>>

-----------------------------------------------------------------------------
(* EvalContainer.run, evaluation.py 106-168 *)

(* -float('inf') as the fraction -1/0, and None *)
NegInf == [num |-> -1, den |-> 0]
None == [num |-> 0, den |-> 0]

(* a >= b on fractions with denominators >= 0 *)
GreaterEq(a, b) == a.num * b.den >= b.num * a.den

(* line 148: reward_buf.std(), the unbiased estimate: the square root of
   the fraction num / den *)
TorchStdSquared(buf) ==
    [num |-> NbEnv * SumFrom([i \in Slots |-> buf[i] * buf[i]], 0)
               - SumFrom(buf, 0) * SumFrom(buf, 0),
     den |-> NbEnv * (NbEnv - 1)]

(* network_paths_at_epoch(epoch)[k - 1], and os.path.split(path)[-1] *)
NetPath(epoch, k) == [dir |-> epoch, file |-> k]
Basename(path) == path.file

(* log_dir_helper.epochs() and the length of network_paths_at_epoch(epoch) *)
Epochs(dir) == 1 .. Len(dir)
NetCount(dir, epoch) == dir[epoch]

(* lines 110-114: the next epoch of epochs(); its locals are initialised *)
EC_next_epoch ==
    /\ container = "EvalContainer"
    /\ ec_pc = "epochs"
    /\ epoch_id + 1 \in Epochs(log_dir)
    /\ epoch_id' = epoch_id + 1
    /\ best_mean' = NegInf
    /\ best_std' = None
    /\ selected_model' = 0
    /\ reward_buf' = Zeros
    /\ nb_nets' = NetCount(log_dir, epoch_id + 1)
    /\ net_pos' = 0
    /\ ec_pc' = "nets"
    /\ epoch_passes' = <<>>
    /\ UNCHANGED <<train_vars, eval_vars, save_vars, aux_vars, log_dir, episode_completes, pass_mean,
                   pass_std, best_epoch_id, overall_mean, eval_log, pass_steps,
                   pass_done, pass_upto, passes_log>>

(* lines 115-129: the next network path: the network is loaded, the
   internals and episode_completes are made new, the environments reset *)
EC_begin_pass ==
    /\ container = "EvalContainer"
    /\ ec_pc = "nets"
    /\ net_pos < nb_nets
    /\ net_pos' = net_pos + 1
    /\ episode_completes' = AllFalse
    /\ ec_pc' = "loop"
    /\ pass_steps' = 0
    /\ pass_done' = AllFalse
    /\ pass_upto' = Zeros
    /\ ops' = <<"reset">>
    /\ UNCHANGED <<train_vars, eval_vars, save_vars, sum_vars, report_vars, batch_vars,
                   epoch_passes, passes_log, log_dir, epoch_id, nb_nets, reward_buf,
                   best_mean, best_std, selected_model, pass_mean, pass_std,
                   best_epoch_id, overall_mean, eval_log>>

(* lines 139-145 for slot i, on the loop state st = [buf, status] *)
EC_slot(st, i, r, done, info) ==
    IF st.status[i] THEN st
    ELSE IF done /\ Truthy(info)
    THEN [buf |-> [st.buf EXCEPT ![i] = @ + r],
          status |-> [st.status EXCEPT ![i] = TRUE]]
    ELSE [buf |-> [st.buf EXCEPT ![i] = @ + r], status |-> st.status]

(* line 138: for i in range(self.env_mgr.nb_env), from slot i on *)
RECURSIVE EC_slots(_, _, _, _, _)
EC_slots(i, st, rs, ts, is) ==
    IF i >= NbEnv THEN st
    ELSE EC_slots(i + 1, EC_slot(st, i, rs[i], ts[i], is[i]), rs, ts, is)

(* lines 132-145: the calls of one iteration, in order: actor.act,
   env_mgr.step and the loop over the slots; the internals that act
   returned are handed to the next act as they are *)
EC_iteration == <<"act", "step", "ingest">>

(* lines 131-145: one iteration of the while loop: act, env_mgr.step (which
   returns rs, ts, is), and the ingestion of the step *)
EC_step ==
    /\ container = "EvalContainer"
    /\ ec_pc = "loop"
    /\ ~All(episode_completes)
    /\ pass_steps < MaxPassSteps
    /\ \E rs \in RewardVecs, ts \in TerminalVecs :
         \E is \in InfoVecs :
            LET out == EC_slots(0, [buf |-> reward_buf, status |-> episode_completes],
                                rs, ts, is)
            IN  /\ reward_buf' = out.buf
                /\ episode_completes' = out.status
                /\ pass_done' = [i \in Slots |-> pass_done[i] \/ (ts[i] /\ is[i] # {})]
                /\ pass_upto' = [i \in Slots |->
                        IF pass_done[i] THEN pass_upto[i] ELSE pass_upto[i] + rs[i]]
    /\ pass_steps' = pass_steps + 1
    /\ ops' = ops \o EC_iteration
    /\ UNCHANGED <<train_vars, eval_vars, save_vars, sum_vars, report_vars, batch_vars,
                   epoch_passes, passes_log, log_dir, ec_pc, epoch_id, nb_nets, net_pos,
                   best_mean, best_std, selected_model, pass_mean, pass_std,
                   best_epoch_id, overall_mean, eval_log>>

(* lines 131 and 147-153: the while loop ends; mean and std of the buffer;
   the best checkpoint of the epoch so far *)
EC_end_pass ==
    /\ container = "EvalContainer"
    /\ ec_pc = "loop"
    /\ All(episode_completes)
    /\ LET mean == Mean(reward_buf)
           std == TorchStdSquared(reward_buf)
       IN  /\ pass_mean' = mean
           /\ pass_std' = std
           /\ IF GreaterEq(mean, best_mean)
              THEN /\ best_mean' = mean
                   /\ best_std' = std
                   /\ selected_model' = Basename(NetPath(epoch_id, net_pos))
              ELSE UNCHANGED <<best_mean, best_std, selected_model>>
    /\ ec_pc' = "nets"
    /\ epoch_passes' = Append(epoch_passes,
            [mean |-> Mean(pass_upto), std |-> TorchStdSquared(pass_upto),
             model |-> Basename(NetPath(epoch_id, net_pos))])
    /\ UNCHANGED <<train_vars, eval_vars, save_vars, aux_vars, log_dir, epoch_id, nb_nets, net_pos,
                   reward_buf, episode_completes, best_epoch_id, overall_mean,
                   eval_log, pass_steps, pass_done, pass_upto, passes_log>>

(* lines 115 and 155-167: no network path is left: the epoch's line is
   appended to the evaluation log; the best epoch so far *)
EC_end_epoch ==
    /\ container = "EvalContainer"
    /\ ec_pc = "nets"
    /\ net_pos = nb_nets
    /\ eval_log' = Append(eval_log, <<epoch_id, best_mean, best_std, selected_model>>)
    /\ IF GreaterEq(best_mean, overall_mean)
       THEN best_epoch_id' = epoch_id /\ overall_mean' = best_mean
       ELSE UNCHANGED <<best_epoch_id, overall_mean>>
    /\ ec_pc' = "epochs"
    /\ passes_log' = Append(passes_log, epoch_passes)
    /\ UNCHANGED <<train_vars, eval_vars, save_vars, aux_vars, log_dir, epoch_id, nb_nets, net_pos,
                   reward_buf, episode_completes, best_mean, best_std,
                   selected_model, pass_mean, pass_std, pass_steps, pass_done,
                   pass_upto, epoch_passes>>

(* lines 110 and 168: epochs() is exhausted *)
EC_finish ==
    /\ container = "EvalContainer"
    /\ ec_pc = "epochs"
    /\ epoch_id + 1 \notin Epochs(log_dir)
    /\ ec_pc' = "finished"
    /\ UNCHANGED <<train_vars, eval_vars, save_vars, aux_vars, log_dir, epoch_id, nb_nets, net_pos,
                   reward_buf, episode_completes, best_mean, best_std,
                   selected_model, pass_mean, pass_std, best_epoch_id,
                   overall_mean, eval_log, pass_steps, pass_done, pass_upto,
                   epoch_passes, passes_log>>

-----------------------------------------------------------------------------
(* SavesModels, _base.py 207-252 *)

(* A plausible slip: the comparison is strict. *)
ShouldSave_Strict(step_count, ns) == step_count > ns

(* line 243: if step_count >= self.next_save *)
ShouldSave(step_count, ns) == step_count >= ns

(* lines 247 and 252: self.next_save += self.epoch_len *)
Advance(ns, e) == ns + e

(* line 250: if initial_count > 0 *)
ResumeGuard(initial_count) == initial_count > 0

(* A plausible slip: the loop stops as soon as next_save reaches the count. *)
WhileCond_Strict(ns, initial_count) == ns < initial_count

(* line 251: while self.next_save <= initial_count *)
WhileCond(ns, initial_count) == ns <= initial_count

(* the observers' record of a call that begins now, and of no call *)
NoOp == [op |-> "none", arg |-> 0, pre |-> 0, pre_saved |-> 0]

Brief(call) == [op |-> call.op, arg |-> call.arg, pre |-> call.pre]

CallRecord(name, arg) ==
    [op |-> name, arg |-> arg, pre |-> next_save, pre_saved |-> nb_saved]

(* A plausible slip: the threshold is re-anchored at the step count saved. *)
save_model_if_epoch_Reanchor(step_count) ==
    /\ sv_pc = "idle"
    /\ IF ShouldSave(step_count, next_save)
       THEN /\ nb_saved' = nb_saved + 1
            /\ next_save' = Advance(step_count, epoch_len)
       ELSE UNCHANGED <<nb_saved, next_save>>
    /\ last_op' = CallRecord("save_model_if_epoch", step_count)
    /\ prev_op' = Brief(last_op)
    /\ UNCHANGED <<epoch_len, sv_pc, sv_arg>>

(* save_model_if_epoch, lines 238-247 *)
save_model_if_epoch(step_count) ==
    /\ sv_pc = "idle"
    /\ IF ShouldSave(step_count, next_save)
       THEN /\ nb_saved' = nb_saved + 1
            /\ next_save' = Advance(next_save, epoch_len)
       ELSE UNCHANGED <<nb_saved, next_save>>
    /\ last_op' = CallRecord("save_model_if_epoch", step_count)
    /\ prev_op' = Brief(last_op)
    /\ UNCHANGED <<epoch_len, sv_pc, sv_arg>>

(* A plausible slip: a do-while, the first addition made before the test. *)
set_next_save_DoWhile(initial_count) ==
    /\ sv_pc = "idle"
    /\ IF ResumeGuard(initial_count)
       THEN /\ sv_pc' = "set_next_save"
            /\ sv_arg' = CallRecord("set_next_save", initial_count)
            /\ next_save' = Advance(next_save, epoch_len)
            /\ UNCHANGED <<last_op, prev_op>>
       ELSE /\ sv_pc' = "idle"
            /\ last_op' = CallRecord("set_next_save", initial_count)
            /\ prev_op' = Brief(last_op)
            /\ UNCHANGED <<sv_arg, next_save>>
    /\ UNCHANGED <<epoch_len, nb_saved>>

(* set_next_save, lines 249-250: the call and its guard *)
set_next_save(initial_count) ==
    /\ sv_pc = "idle"
    /\ IF ResumeGuard(initial_count)
       THEN /\ sv_pc' = "set_next_save"
            /\ sv_arg' = CallRecord("set_next_save", initial_count)
            /\ UNCHANGED <<last_op, prev_op>>
       ELSE /\ sv_pc' = "idle"
            /\ last_op' = CallRecord("set_next_save", initial_count)
            /\ prev_op' = Brief(last_op)
            /\ UNCHANGED sv_arg
    /\ UNCHANGED <<next_save, epoch_len, nb_saved>>

(* set_next_save, lines 251-252: one iteration of the while loop *)
set_next_save_iterate ==
    /\ sv_pc = "set_next_save"
    /\ WhileCond(next_save, sv_arg.arg)
    /\ next_save' = Advance(next_save, epoch_len)
    /\ UNCHANGED <<epoch_len, nb_saved, sv_pc, sv_arg, last_op, prev_op>>

(* set_next_save, line 251: the loop condition fails and the call returns *)
set_next_save_return ==
    /\ sv_pc = "set_next_save"
    /\ ~WhileCond(next_save, sv_arg.arg)
    /\ sv_pc' = "idle"
    /\ last_op' = sv_arg
    /\ prev_op' = Brief(last_op)
    /\ sv_arg' = NoOp
    /\ UNCHANGED <<next_save, epoch_len, nb_saved>>

SaveIfEpoch ==
    \E s \in StepCounts : save_model_if_epoch(s) /\ UNCHANGED <<train_vars, eval_vars, ec_vars, aux_vars>>

SetNextSave ==
    \E c \in StepCounts : set_next_save(c) /\ UNCHANGED <<train_vars, eval_vars, ec_vars, aux_vars>>

SetNextSaveIterate == set_next_save_iterate /\ UNCHANGED <<train_vars, eval_vars, ec_vars, aux_vars>>

SetNextSaveReturn == set_next_save_return /\ UNCHANGED <<train_vars, eval_vars, ec_vars, aux_vars>>

-----------------------------------------------------------------------------
(* Initial states: the class-level defaults. *)

(* update_buffers handed lists whose lengths need not be nb_env:
   _base.py 65-77 and evaluation.py 255-273.  A list of length n is a
   function on 0 .. n - 1. *)

LenOf(xs) == Cardinality(DOMAIN xs)

Min(a, b) == IF a <= b THEN a ELSE b

(* The lengths a caller may pass, and the lists of each kind; every reward
   is 1, so that a slot that was added to is seen to have moved. *)
BatchLens == 1 .. (NbEnv + 1)
RewardLists == UNION {[0 .. (n - 1) -> {1}] : n \in BatchLens}
TerminalLists == UNION {[0 .. (n - 1) -> BOOLEAN] : n \in BatchLens}
InfoLists ==
    UNION {{f \in [0 .. (n - 1) -> SUBSET (0 .. NbEnv)] :
                \A i \in DOMAIN f : f[i] \in InfosOf(i)} : n \in BatchLens}

(* line 66: "+=" of a tensor of another length on the tensor of nb_env
   sums: a tensor of one element is broadcast to every slot, any other
   length makes torch raise RuntimeError *)
CanAdd(rs) == LenOf(rs) = NbEnv \/ LenOf(rs) = 1
AddAny(buf, rs) ==
    IF LenOf(rs) = NbEnv THEN AddRewards(buf, rs)
    ELSE [i \in Slots |-> buf[i] + rs[0]]

(* lines 70-72: zip stops at the shortest of the buffer, terminals and infos;
   the slots it does not reach are left as a slot with done = False is *)
ZipLen(ts, is) == Min(NbEnv, Min(LenOf(ts), LenOf(is)))
ZipTerminals(ts, is) == [i \in Slots |-> i < ZipLen(ts, is) /\ ts[i]]
ZipInfos(ts, is) == [i \in Slots |-> IF i < ZipLen(ts, is) THEN is[i] ELSE {}]

(* CountsRewards.update_buffers, lines 65-77, on lists of any length *)
CountsRewards_update_buffers_any(rs, ts, is) ==
    LET added == AddAny(episode_reward_buffer, rs)
        out == ZipLoop(0, [buf |-> added, tr |-> <<>>, ti |-> <<>>],
                       ZipTerminals(ts, is), ZipInfos(ts, is))
    IN  /\ container = "CountsRewards"
        /\ nb_ingest < MaxBatchCalls
        /\ IF CanAdd(rs)
           THEN /\ episode_reward_buffer' = out.buf
                /\ local_step_count' = AdvanceCount(local_step_count)
                /\ terminal_rewards' = out.tr
                /\ terminal_infos' = out.ti
                /\ raised' = "none"
           ELSE /\ raised' = "RuntimeError"
                /\ terminal_rewards' = <<>>
                /\ terminal_infos' = <<>>
                /\ UNCHANGED <<episode_reward_buffer, local_step_count>>
        /\ rewards' = rs
        /\ terminals' = ts
        /\ infos' = is
        /\ prev_buffer' = episode_reward_buffer
        /\ prev_count' = local_step_count
        /\ nb_ingest' = nb_ingest + 1
        /\ UNCHANGED <<ingested, emitted, count_base, nb_since, container>>

(* Evaluation.update_buffers, lines 265-272, from index i on, on the loop
   state st = [buf, status, raised]: episode_complete_statuses[i],
   terminals[i] and infos[i] raise IndexError past the end of their list;
   infos[i] is read only when terminals[i] is true *)
RECURSIVE EvalLoopAny(_, _, _, _, _)
EvalLoopAny(i, st, rs, ts, is) ==
    IF i >= LenOf(rs) THEN st
    ELSE IF i >= NbEnv THEN [st EXCEPT !.raised = "IndexError"]
    ELSE IF st.status[i] THEN EvalLoopAny(i + 1, st, rs, ts, is)
    ELSE IF i >= LenOf(ts) THEN [st EXCEPT !.raised = "IndexError"]
    ELSE IF ts[i] /\ i >= LenOf(is) THEN [st EXCEPT !.raised = "IndexError"]
    ELSE LET slot == EvalSlot([buf |-> st.buf, status |-> st.status], i, rs[i],
                              ts[i], IF ts[i] THEN is[i] ELSE {})
         IN  EvalLoopAny(i + 1, [buf |-> slot.buf, status |-> slot.status,
                                 raised |-> st.raised], rs, ts, is)

(* Evaluation.update_buffers, lines 255-273, on lists of any length *)
Evaluation_update_buffers_any(rs, ts, is) ==
    LET out == EvalLoopAny(0, [buf |-> episode_reward_buffer,
                               status |-> episode_complete_statuses,
                               raised |-> "none"], rs, ts, is)
    IN  /\ container = "Evaluation"
        /\ nb_ingest < MaxBatchCalls
        /\ episode_reward_buffer' = out.buf
        /\ episode_complete_statuses' = out.status
        /\ raised' = out.raised
        /\ rewards' = rs
        /\ terminals' = ts
        /\ infos' = is
        /\ prev_buffer' = episode_reward_buffer
        /\ prev_statuses' = episode_complete_statuses
        /\ prev_count' = local_step_count
        /\ nb_ingest' = nb_ingest + 1
        /\ UNCHANGED <<local_step_count, terminal_rewards, terminal_infos, ingested,
                       emitted, count_base, nb_since, container>>
        /\ UNCHANGED <<ev_pc, ev_result, env_steps, first_done, upto_done>>

TrainIngestAny ==
    \E rs \in RewardLists, ts \in TerminalLists :
        \E is \in InfoLists :
            /\ CountsRewards_update_buffers_any(rs, ts, is)
            /\ UNCHANGED <<eval_vars, ec_vars, save_vars, sum_vars, report_vars, trace_vars>>

EvalIngestAny ==
    \E rs \in RewardLists, ts \in TerminalLists :
        \E is \in InfoLists :
            /\ Evaluation_update_buffers_any(rs, ts, is)
            /\ UNCHANGED <<ec_vars, save_vars, sum_vars, report_vars, trace_vars>>

-----------------------------------------------------------------------------
(* LogsRewards.log_episode_results, _base.py 89-128 *)

NoReport == [called |-> FALSE, terminal_rewards |-> <<>>, rank |-> {},
             pre_lines |-> 0, pre_mean |-> 0, pre_rate |-> 0]

(* The value of a supplied argument. *)
ValueOf(arg) == CHOOSE v \in arg : TRUE

(* Sum of the sequence xs from position k on. *)
RECURSIVE SeqSumFrom(_, _)
SeqSumFrom(xs, k) == IF k > Len(xs) THEN 0 ELSE xs[k] + SeqSumFrom(xs, k + 1)

(* line 104: np.mean(terminal_rewards), as the fraction num / den *)
ListMean(xs) == [num |-> SeqSumFrom(xs, 1), den |-> Len(xs)]

(* lines 111 and 124-125: a step count over delta_t, as a fraction *)
Rate(steps, delta_t) == [num |-> steps, den |-> delta_t]

(* line 100: if terminal_rewards (a non-empty list is truthy) *)
HasRewards(trs) == trs # <<>>

(* A plausible slip: "if not rank", which takes rank 0 for an absent rank. *)
RankAbsent_Falsy(rank) == rank = {} \/ rank = {0}

(* line 105: if rank is None *)
RankAbsent(rank) == rank = {}

(* lines 107-112: 'STEP: {} REWARD: {} STEP/S: {}' *)
SingleLine(gsc, ep_reward, lsc, isc, delta_t) ==
    [form |-> "STEP", step |-> gsc, reward |-> ep_reward,
     rate |-> Rate(lsc - isc, delta_t)]

(* lines 115-127: 'RANK: {} GLOBAL STEP: {} REWARD: {} GLOBAL STEP/S: {}
   LOCAL STEP/S: {}' *)
RankLine(rank, gsc, ep_reward, lsc, isc, delta_t) ==
    [form |-> "RANK", rank |-> ValueOf(rank), step |-> gsc, reward |-> ep_reward,
     global_rate |-> Rate(gsc - isc, delta_t),
     local_rate |-> Rate(lsc - isc, delta_t)]

log_episode_results(trs, gsc, local, rank, isc, delta_t) ==
    LET lsc == IF local = {} THEN gsc ELSE ValueOf(local)
        ep_reward == ListMean(trs)
    IN  /\ container = "CountsRewards"
        /\ Len(logger) < MaxLogLines \/ ~HasRewards(trs)
        /\ IF HasRewards(trs)
           THEN /\ nb_mean' = nb_mean + 1
                /\ IF RankAbsent(rank)
                   THEN /\ logger' = Append(logger,
                                SingleLine(gsc, ep_reward, lsc, isc, delta_t))
                        /\ nb_rate' = nb_rate + 1
                   ELSE /\ logger' = Append(logger,
                                RankLine(rank, gsc, ep_reward, lsc, isc, delta_t))
                        /\ nb_rate' = nb_rate + 2
           ELSE UNCHANGED <<logger, nb_mean, nb_rate>>
        /\ lr_call' = [called |-> TRUE, terminal_rewards |-> trs, rank |-> rank,
                       pre_lines |-> Len(logger), pre_mean |-> nb_mean,
                       pre_rate |-> nb_rate]
        /\ lr_return' = trs

LogEpisodeResults ==
    \E trs \in CompletedRewards, rank \in Ranks, delta_t \in Elapsed :
        \E gsc \in GlobalStepCounts, local \in LocalStepCounts, isc \in InitialStepCounts :
            /\ log_episode_results(trs, gsc, local, rank, isc, delta_t)
            /\ UNCHANGED <<train_vars, eval_vars, ec_vars, save_vars, sum_vars, batch_vars,
                           trace_vars>>

-----------------------------------------------------------------------------
(* WritesSummaries, _base.py 150-204 *)

NoCall == [called |-> FALSE, cur_time |-> 0, pre |-> 0, pre_written |-> 0]

(* A plausible slip: summaries are written once summary_frequency has
   elapsed, not only after more than it. *)
ShouldWrite_AtFrequency(elapsed, frequency) == elapsed >= frequency

(* line 182: if elapsed > self.summary_frequency *)
ShouldWrite(elapsed, frequency) == elapsed > frequency

(* write_summaries, lines 178-204: cur_time = time(); the add_scalar and
   add_image calls of lines 185-204 are one write to summary_writer *)
write_summaries ==
    LET cur_time == clock
        elapsed == cur_time - prev_summary_time
    IN  /\ container = "CountsRewards"
        /\ IF ShouldWrite(elapsed, summary_frequency)
           THEN /\ prev_summary_time' = cur_time
                /\ nb_written' = nb_written + 1
                /\ emit_times' = <<emit_times[2], cur_time>>
           ELSE UNCHANGED <<prev_summary_time, nb_written, emit_times>>
        /\ ws_call' = [called |-> TRUE, cur_time |-> cur_time,
                       pre |-> prev_summary_time, pre_written |-> nb_written]
        /\ UNCHANGED <<clock, summary_frequency>>

WriteSummaries ==
    write_summaries /\ UNCHANGED <<train_vars, eval_vars, ec_vars, save_vars, report_vars, batch_vars,
                   trace_vars>>

(* time() moves on between two calls; it never runs backwards *)
Tick ==
    /\ container = "CountsRewards"
    /\ clock < MaxClock
    /\ clock' = clock + 1
    /\ UNCHANGED <<prev_summary_time, summary_frequency, nb_written, ws_call, emit_times>>
    /\ UNCHANGED <<train_vars, eval_vars, ec_vars, save_vars, report_vars, batch_vars,
                   trace_vars>>

-----------------------------------------------------------------------------
(* Construction *)

(* _base.py 28-29 *)
InitCounts ==
    /\ episode_reward_buffer = Zeros
    /\ local_step_count = 0
    /\ terminal_rewards = <<>>
    /\ terminal_infos = <<>>
    /\ rewards = Zeros
    /\ terminals = AllFalse
    /\ infos = NoInfos
    /\ prev_buffer = Zeros
    /\ ingested = Zeros
    /\ emitted = Zeros
    /\ nb_ingest = 0
    /\ count_base = 0
    /\ nb_since = 0

(* _base.py 208; epoch_len is the container's, any positive length *)
InitSave(lens) ==
    /\ next_save = 0
    /\ epoch_len \in lens
    /\ nb_saved = 0
    /\ sv_pc = "idle"
    /\ sv_arg = NoOp
    /\ last_op = NoOp
    /\ prev_op = Brief(NoOp)

(* evaluation.py 224-227: Evaluation.__init__; run() not yet called *)
InitEvaluation ==
    /\ episode_complete_statuses = AllFalse
    /\ ev_pc = "constructed"
    /\ ev_result = NoResult
    /\ env_steps = 0
    /\ prev_statuses = AllFalse
    /\ first_done = Zeros
    /\ upto_done = Zeros

(* evaluation.py 107-109: run() is entered *)
InitContainer(dirs) ==
    /\ log_dir \in dirs
    /\ ec_pc = "epochs"
    /\ epoch_id = 0
    /\ nb_nets = 0
    /\ net_pos = 0
    /\ reward_buf = Zeros
    /\ episode_completes = AllFalse
    /\ best_mean = NegInf
    /\ best_std = None
    /\ selected_model = 0
    /\ pass_mean = None
    /\ pass_std = None
    /\ best_epoch_id = 0
    /\ overall_mean = NegInf
    /\ eval_log = <<>>
    /\ pass_steps = 0
    /\ pass_done = AllFalse
    /\ pass_upto = Zeros
    /\ epoch_passes = <<>>
    /\ passes_log = <<>>
    /\ ops = <<>>

(* _base.py 151: _prev_summary_time = time(), when the class is made; -1
   in emit_times stands for no write yet *)
InitWrites(frequencies) ==
    /\ clock = 0
    /\ prev_summary_time = 0
    /\ summary_frequency \in frequencies
    /\ nb_written = 0
    /\ ws_call = NoCall
    /\ emit_times = <<-1, -1>>

(* nothing has been logged *)
InitLogs ==
    /\ logger = <<>>
    /\ nb_mean = 0
    /\ nb_rate = 0
    /\ lr_call = NoReport
    /\ lr_return = <<>>

(* no update_buffers call has raised *)
InitBatch ==
    /\ raised = "none"
    /\ prev_count = 0

Parts(class, dirs, lens) ==
    /\ InitCounts
    /\ container = class
    /\ InitEvaluation
    /\ InitContainer(dirs)
    /\ InitSave(lens)
    /\ InitLogs
    /\ InitBatch

Construct(class, dirs, lens) ==
    /\ Parts(class, dirs, lens)
    /\ InitWrites({1})

(* A training container ingesting steps. *)
InitTrain == Construct("CountsRewards", {<<>>}, {1})

SpecTrain == InitTrain /\ [][Ingest]_vars

(* A training container whose step count may be set, as on a restore. *)
NextCount == Ingest \/ SetLocalStepCount

SpecCount == InitTrain /\ [][NextCount]_vars

(* The checkpoint cadence of a training container. *)
InitCadence == Construct("CountsRewards", {<<>>}, EpochLens)

NextSave == SaveIfEpoch \/ SetNextSave \/ SetNextSaveIterate \/ SetNextSaveReturn

SpecSave == InitCadence /\ [][NextSave]_vars

(* The checkpoint cadence when epoch_len may be zero.  The number of
   saves is then unbounded: the model follows it up to MaxSaves. *)
InitAnyCadence == Construct("CountsRewards", {<<>>}, AnyEpochLens)

SaveIfEpochUpTo == nb_saved < MaxSaves /\ SaveIfEpoch

NextAnyCadence ==
    SaveIfEpochUpTo \/ SetNextSave \/ SetNextSaveIterate \/ SetNextSaveReturn

SpecAnyCadence == InitAnyCadence /\ [][NextAnyCadence]_vars

(* The summaries of a training container as time passes. *)
InitSummary == Parts("CountsRewards", {<<>>}, {1}) /\ InitWrites(Frequencies)

NextSummary == WriteSummaries \/ Tick

SpecSummary == InitSummary /\ [][NextSummary]_vars

(* The episode results a training container logs. *)
SpecReport == Construct("CountsRewards", {<<>>}, {1}) /\ [][LogEpisodeResults]_vars

(* One evaluation pass: an Evaluation is constructed and run() is called. *)
InitEval == Construct("Evaluation", {<<>>}, {1})

NextEval == Evaluation_reset \/ Evaluation_step \/ Evaluation_return

SpecEval == InitEval /\ [][NextEval]_vars

(* EvalContainer.run over the epochs of a log directory. *)
InitEvalContainer == Construct("EvalContainer", LogDirs, {1})

NextContainer ==
    \/ EC_next_epoch
    \/ EC_begin_pass
    \/ EC_step
    \/ EC_end_pass
    \/ EC_end_epoch
    \/ EC_finish

SpecContainer == InitEvalContainer /\ [][NextContainer]_vars

(* Evaluation passes of either driver: Evaluation.run or EvalContainer.run. *)
InitPasses == InitEval \/ InitEvalContainer

NextPasses == NextEval \/ NextContainer

SpecPasses == InitPasses /\ [][NextPasses]_vars

(* Reward ingestion in either mode: a training container or an evaluation. *)
InitIngest == InitTrain \/ InitEval

NextIngest == Ingest \/ NextEval

SpecIngest == InitIngest /\ [][NextIngest]_vars

(* update_buffers of a training container or of an Evaluation, handed
   lists of any length. *)
NextBatch == TrainIngestAny \/ EvalIngestAny

SpecBatch == InitIngest /\ [][NextBatch]_vars

-----------------------------------------------------------------------------
(* Properties of CountsRewards.update_buffers *)

(* C1: in training mode, for every slot the completed-episode rewards
   returned so far plus the slot's current buffer equal the raw rewards
   passed in for the slot: nothing is dropped, nothing counted twice. *)
Thm_C1_Conservation ==
    container = "CountsRewards" =>
        \A i \in Slots : emitted[i] + episode_reward_buffer[i] = ingested[i]

(* A slot that completed an episode with a positive return and has since
   accumulated reward of the next episode. *)
Wit_C1_Conservation ==
    /\ container = "CountsRewards"
    /\ nb_ingest >= 2
    /\ \E i \in Slots : /\ emitted[i] > 0
                        /\ episode_reward_buffer[i] > 0
                        /\ emitted[i] + episode_reward_buffer[i] = ingested[i]

-----------------------------------------------------------------------------
(* Properties of SavesModels *)

SaveReturned == sv_pc = "idle" /\ last_op.op = "save_model_if_epoch"
ResumeReturned == sv_pc = "idle" /\ last_op.op = "set_next_save"

(* C7: save_model_if_epoch(step_count) invokes the saver exactly once and
   adds exactly epoch_len to next_save when step_count >= next_save, and
   otherwise saves nothing and leaves next_save alone; one call fires at
   most once however far step_count is beyond next_save. *)
Thm_C7_SaveIfEpoch ==
    SaveReturned =>
        IF last_op.arg >= last_op.pre
        THEN /\ nb_saved = last_op.pre_saved + 1
             /\ next_save = last_op.pre + epoch_len
        ELSE /\ nb_saved = last_op.pre_saved
             /\ next_save = last_op.pre

(* A call whose step count is at least two epochs beyond the threshold
   has fired once and moved the threshold by one epoch. *)
Wit_C7_SaveIfEpoch ==
    /\ SaveReturned
    /\ last_op.arg >= last_op.pre + 2 * epoch_len
    /\ nb_saved = last_op.pre_saved + 1
    /\ next_save = last_op.pre + epoch_len

(* C8: over any sequence of save_model_if_epoch and set_next_save calls
   next_save never decreases, is always the initial threshold (0) plus a
   whole multiple of epoch_len, and a save happens exactly in the
   save_model_if_epoch calls whose step count has reached the threshold. *)
Thm_C8_CadenceMonotone ==
    /\ [](/\ next_save % epoch_len = 0
          /\ SaveReturned =>
                /\ nb_saved \in {last_op.pre_saved, last_op.pre_saved + 1}
                /\ (nb_saved = last_op.pre_saved + 1) <=> (last_op.arg >= last_op.pre)
          /\ ResumeReturned => nb_saved = last_op.pre_saved)
    /\ [][next_save' >= next_save]_vars

(* A save that fired after a resume correction had moved the threshold. *)
Wit_C8_CadenceMonotone ==
    /\ SaveReturned
    /\ prev_op.op = "set_next_save"
    /\ prev_op.arg > 0
    /\ last_op.pre > prev_op.pre
    /\ nb_saved = last_op.pre_saved + 1
    /\ next_save = last_op.pre + epoch_len

(* C9: set_next_save(initial_count) with a nonzero count adds epoch_len to
   next_save a least number of times that makes next_save > initial_count,
   saves nothing, and a save_model_if_epoch(s) that follows it with
   s <= initial_count does not fire. *)
Thm_C9_ResumeCorrection ==
    /\ (ResumeReturned /\ last_op.arg # 0) =>
          /\ next_save > last_op.arg
          /\ nb_saved = last_op.pre_saved
          /\ \E k \in 0 .. (MaxStep + 1) :
                /\ next_save = last_op.pre + k * epoch_len
                /\ k > 0 => last_op.pre + (k - 1) * epoch_len <= last_op.arg
    /\ (/\ SaveReturned
        /\ prev_op.op = "set_next_save"
        /\ prev_op.arg # 0
        /\ last_op.arg <= prev_op.arg) =>
          /\ nb_saved = last_op.pre_saved
          /\ next_save = last_op.pre

(* A resume correction that added at least two epochs, followed by a
   save_model_if_epoch at the resumed count, which did not fire. *)
Wit_C9_ResumeCorrection ==
    /\ SaveReturned
    /\ prev_op.op = "set_next_save"
    /\ prev_op.arg > 0
    /\ last_op.pre >= prev_op.pre + 2 * epoch_len
    /\ last_op.arg = prev_op.arg
    /\ nb_saved = last_op.pre_saved

(* C10: two set_next_save calls in a row with the same initial_count leave
   the next_save the first one left. *)
Thm_C10_ResumeIdempotent ==
    (/\ ResumeReturned
     /\ prev_op.op = "set_next_save"
     /\ prev_op.arg = last_op.arg) => next_save = last_op.pre

(* The first of the two calls moved the threshold by at least two epochs. *)
Wit_C10_ResumeIdempotent ==
    /\ ResumeReturned
    /\ prev_op.op = "set_next_save"
    /\ prev_op.arg = last_op.arg
    /\ last_op.pre >= prev_op.pre + 2 * epoch_len
    /\ next_save = last_op.pre

-----------------------------------------------------------------------------
(* Properties of Evaluation *)

Stepped == container = "Evaluation" /\ env_steps >= 1

(* C2: in evaluation mode, a slot whose status was true before an
   update_buffers call has the same buffer value after it, whatever the
   call's rewards, terminals and infos, and its status stays true: no new
   completion is recorded for it. *)
Thm_C2_CompleteSlotFrozen ==
    Stepped =>
        \A i \in Slots :
            prev_statuses[i] =>
                /\ episode_reward_buffer[i] = prev_buffer[i]
                /\ episode_complete_statuses[i]
                /\ first_done[i] < env_steps

(* A complete slot was handed a positive reward with terminal and info
   again, and its buffer did not move. *)
Wit_C2_CompleteSlotFrozen ==
    /\ Stepped
    /\ \E i \in Slots :
          /\ prev_statuses[i]
          /\ rewards[i] > 0 /\ terminals[i] /\ infos[i] # {}
          /\ episode_reward_buffer[i] = prev_buffer[i]
          /\ ingested[i] > episode_reward_buffer[i]

(* What C3 says of slot i after an ingest with terminals[i] true and
   infos[i] empty, in either mode. *)
NotCompletion(i) ==
    /\ container = "CountsRewards" =>
          /\ \A k \in DOMAIN terminal_infos : terminal_infos[k] # {}
          /\ Len(terminal_rewards) =
                Cardinality({j \in Slots : terminals[j] /\ infos[j] # {}})
    /\ container = "Evaluation" =>
          episode_complete_statuses[i] = prev_statuses[i]

TerminalWithoutInfo(i) == nb_ingest >= 1 /\ terminals[i] /\ infos[i] = {}

(* C3 as stated: a step with terminals[i] true and infos[i] empty adds
   rewards[i] to the buffer of slot i in both modes, emits nothing for the
   slot and does not set its status. *)
Cex_C3_AlwaysAdds ==
    \A i \in Slots :
        TerminalWithoutInfo(i) =>
            /\ episode_reward_buffer[i] = prev_buffer[i] + rewards[i]
            /\ NotCompletion(i)

(* C3, amended: a step with terminals[i] true and infos[i] empty is no
   completion in either mode: it emits nothing for slot i, does not change
   the slot's status and never zeroes the buffer; it adds rewards[i] to the
   buffer of slot i, except in evaluation mode when the slot is already
   complete, where the buffer is left as it is. *)
Thm_C3_TerminalWithoutInfo ==
    \A i \in Slots :
        TerminalWithoutInfo(i) =>
            /\ episode_reward_buffer[i] =
                  IF container = "Evaluation" /\ prev_statuses[i]
                  THEN prev_buffer[i]
                  ELSE prev_buffer[i] + rewards[i]
            /\ NotCompletion(i)

(* In training mode a slot with a positive sum took a positive reward at
   a terminal step without info and kept accumulating, while the other
   slot completed in the same call. *)
Wit_C3_TerminalWithoutInfo ==
    /\ container = "CountsRewards"
    /\ \E i \in Slots :
          /\ TerminalWithoutInfo(i)
          /\ prev_buffer[i] > 0 /\ rewards[i] > 0
          /\ episode_reward_buffer[i] = prev_buffer[i] + rewards[i]
          /\ Len(terminal_rewards) = 1

(* C4: when run() returns, the buffer of every slot is the sum of the
   slot's rewards over the steps up to and including its first terminal
   with info: the terminal step's reward is in it, the value is not zeroed,
   and no later reward is. *)
Thm_C4_FinalBuffer ==
    (container = "Evaluation" /\ ev_pc = "done") =>
        \A i \in Slots :
            /\ first_done[i] >= 1
            /\ episode_reward_buffer[i] = upto_done[i]

(* The two-slot scenario: slot 0 completes at step 2, slot 1 at step 3,
   slot 0 is handed a reward at step 3 that its final value leaves out. *)
Wit_C4_FinalBuffer ==
    /\ container = "Evaluation" /\ ev_pc = "done"
    /\ env_steps = 3
    /\ first_done[0] = 2 /\ first_done[1] = 3
    /\ episode_reward_buffer[0] = 2 /\ ingested[0] = 3
    /\ episode_reward_buffer[1] = 3
    /\ ev_result.mean = [num |-> 5, den |-> 2]

(* C5: run() steps the environment only while some status is false and
   returns right after the step that completes the last slot: once all
   slots are complete the number of steps taken is the largest first
   completion step, and run() does not return before. *)
Thm_C5_StepsUntilAllDone ==
    container = "Evaluation" =>
        /\ All(episode_complete_statuses) =>
              /\ \A i \in Slots : first_done[i] >= 1
              /\ env_steps = MaxFrom(first_done, 0)
        /\ ev_pc = "done" => All(episode_complete_statuses)

(* A pass of three steps in which slot 0 completed at the first. *)
Wit_C5_StepsUntilAllDone ==
    /\ container = "Evaluation" /\ ev_pc = "done"
    /\ first_done[0] = 1
    /\ env_steps = 3
    /\ env_steps = MaxFrom(first_done, 0)

-----------------------------------------------------------------------------
(* Properties of the evaluation passes *)

(* The first step of a pass has not been taken yet. *)
PassStartsEvaluation == container = "Evaluation" /\ ev_pc = "loop" /\ env_steps = 0
PassStartsContainer == container = "EvalContainer" /\ ec_pc = "loop" /\ pass_steps = 0

(* A pass of EvalContainer.run has ended and the next has not begun. *)
PassEndedContainer == container = "EvalContainer" /\ ec_pc = "nets" /\ net_pos >= 1

(* C6: every evaluation pass, of Evaluation.run and of EvalContainer.run
   (one per checkpoint), starts with an all-zero reward buffer and all
   statuses false, so that the mean and deviation of a pass are those of
   the rewards seen in the pass. *)
Cex_C6_FreshPass ==
    /\ PassStartsEvaluation =>
          episode_reward_buffer = Zeros /\ episode_complete_statuses = AllFalse
    /\ PassStartsContainer =>
          reward_buf = Zeros /\ episode_completes = AllFalse
    /\ PassEndedContainer =>
          pass_mean = Mean(pass_upto) /\ pass_std = TorchStdSquared(pass_upto)

-----------------------------------------------------------------------------
(* C17: each training update_buffers call adds exactly nb_env to
   local_step_count, whatever the terminals and infos are: k calls after
   the count was c (the initial 0 or the last set_local_step_count) leave
   it at c + k * nb_env. *)
Thm_C17_StepCount ==
    /\ local_step_count = count_base + nb_since * NbEnv
    /\ nb_ingest = 0 /\ count_base = 0 => local_step_count = 0

(* Two calls after the count was set to 3, the first of which completed an
   episode and the second of which did not. *)
Wit_C17_StepCount ==
    /\ count_base = 3
    /\ nb_since = 2
    /\ local_step_count = 3 + 2 * NbEnv
    /\ terminal_rewards = <<>>
    /\ \E i \in Slots : emitted[i] > 0

(* C18: within one evaluation pass the status of every slot is monotone:
   all statuses are false before the first step; an update_buffers call
   never turns a status back to false; and it turns one to true only when
   the step's terminals[i] is true and infos[i] is non-empty.  So a status
   is true exactly when the pass has seen such a step for the slot. *)
Thm_C18_StatusMonotone ==
    container = "Evaluation" =>
        /\ env_steps = 0 => episode_complete_statuses = AllFalse
        /\ env_steps >= 1 =>
              \A i \in Slots :
                  /\ prev_statuses[i] => episode_complete_statuses[i]
                  /\ episode_complete_statuses[i] /\ ~prev_statuses[i] =>
                        terminals[i] /\ infos[i] # {}
        /\ \A i \in Slots : episode_complete_statuses[i] <=> first_done[i] # 0

(* In one step a slot became complete on terminal with info, while the
   other slot, complete before, was handed a plain step and stayed
   complete; earlier a terminal without info had left a status false. *)
Wit_C18_StatusMonotone ==
    /\ Stepped
    /\ \E i, j \in Slots :
          /\ ~prev_statuses[i] /\ episode_complete_statuses[i]
          /\ terminals[i] /\ infos[i] # {}
          /\ prev_statuses[j] /\ episode_complete_statuses[j]
          /\ ~terminals[j] /\ infos[j] = {}
          /\ first_done[j] < first_done[i]
          /\ first_done[i] >= 3

-----------------------------------------------------------------------------
(* Properties of CountsRewards.update_buffers *)

(* The slots the last update_buffers call was told have ended an episode. *)
Completing == {i \in Slots : terminals[i] /\ infos[i] # {}}

(* The k-th smallest slot of Completing. *)
KthCompleting(k) ==
    CHOOSE i \in Completing : Cardinality({j \in Completing : j <= i}) = k

(* C19: in training mode one update_buffers call returns one completed
   reward for each slot with terminals[i] true and infos[i] non-empty and
   none for any other slot, in ascending slot order, the k-th reward next
   to the k-th info; each returned value is the slot's sum including the
   reward of this step; after the call those slots hold zero and every
   other slot holds its sum including this step's reward. *)
Thm_C19_TrainingReturns ==
    container = "CountsRewards" /\ nb_ingest >= 1 =>
        /\ Len(terminal_rewards) = Cardinality(Completing)
        /\ Len(terminal_infos) = Cardinality(Completing)
        /\ \A k \in 1 .. Cardinality(Completing) :
              /\ terminal_infos[k] = infos[KthCompleting(k)]
              /\ terminal_rewards[k] =
                    prev_buffer[KthCompleting(k)] + rewards[KthCompleting(k)]
        /\ \A i \in Slots :
              episode_reward_buffer[i] =
                  IF i \in Completing THEN 0 ELSE prev_buffer[i] + rewards[i]

(* Both slots completed in one call with different sums, each of which
   includes the reward of the terminal step. *)
Wit_C19_TrainingReturns ==
    /\ container = "CountsRewards"
    /\ Completing = Slots
    /\ terminal_rewards = <<1, 2>>
    /\ terminal_infos = <<{0}, {1}>>
    /\ prev_buffer[0] = 0 /\ prev_buffer[1] = 1
    /\ rewards[0] = 1 /\ rewards[1] = 1
    /\ episode_reward_buffer = Zeros

-----------------------------------------------------------------------------
(* Properties of WritesSummaries *)

(* The last write_summaries call wrote to summary_writer. *)
Wrote == ws_call.called /\ nb_written = ws_call.pre_written + 1

(* C11: write_summaries writes if and only if the current time minus
   prev_summary_time is strictly greater than summary_frequency; when it
   writes, prev_summary_time becomes the current time; otherwise
   prev_summary_time is unchanged and nothing is written; so, time never
   running backwards, two consecutive writes are more than
   summary_frequency apart. *)
Thm_C11_SummaryCadence ==
    /\ ws_call.called =>
          /\ Wrote <=> ws_call.cur_time - ws_call.pre > summary_frequency
          /\ Wrote => prev_summary_time = ws_call.cur_time
          /\ ~Wrote => /\ prev_summary_time = ws_call.pre
                       /\ nb_written = ws_call.pre_written
    /\ emit_times[1] # -1 => emit_times[2] - emit_times[1] > summary_frequency

(* Two writes, summary_frequency + 1 apart, and then a call exactly
   summary_frequency after the second one, which wrote nothing. *)
Wit_C11_SummaryCadence ==
    /\ emit_times[1] # -1
    /\ emit_times[2] - emit_times[1] = summary_frequency + 1
    /\ ws_call.called /\ ~Wrote
    /\ ws_call.cur_time - ws_call.pre = summary_frequency
    /\ summary_frequency = 2

-----------------------------------------------------------------------------
(* Properties of LogsRewards *)

(* C12: log_episode_results with an empty list of completed rewards writes
   no log line and evaluates no mean and no rate, whether rank is absent
   or supplied; with a non-empty list it writes exactly one line: the
   single-process form when rank is absent, the rank-qualified form,
   naming the rank, when it is supplied. *)
Thm_C12_LogEpisodeResults ==
    lr_call.called =>
        /\ lr_call.terminal_rewards = <<>> =>
              /\ Len(logger) = lr_call.pre_lines
              /\ nb_mean = lr_call.pre_mean
              /\ nb_rate = lr_call.pre_rate
        /\ lr_call.terminal_rewards # <<>> =>
              /\ Len(logger) = lr_call.pre_lines + 1
              /\ lr_call.rank = {} => logger[Len(logger)].form = "STEP"
              /\ lr_call.rank # {} =>
                    /\ logger[Len(logger)].form = "RANK"
                    /\ lr_call.rank = {logger[Len(logger)].rank}
        /\ lr_return = lr_call.terminal_rewards

(* A call with rewards and rank 0 wrote the rank-qualified line; the call
   after it, with rank supplied and no rewards, wrote nothing. *)
Wit_C12_LogEpisodeResults ==
    /\ lr_call.called
    /\ lr_call.terminal_rewards = <<>>
    /\ lr_call.rank = {1}
    /\ Len(logger) = 1
    /\ logger[1].form = "RANK"
    /\ logger[1].rank = 0
    /\ nb_mean = 1 /\ nb_rate = 2

-----------------------------------------------------------------------------
(* Properties of update_buffers on lists of any length *)

(* The last update_buffers call was handed a list whose length is not nb_env. *)
Mismatched ==
    /\ nb_ingest >= 1
    /\ \/ LenOf(rewards) # NbEnv
       \/ LenOf(terminals) # NbEnv
       \/ LenOf(infos) # NbEnv

(* C13 as stated: an update_buffers call whose rewards, terminals or infos
   list has a length other than nb_env fails with InvalidBatchSize, in
   training and in evaluation mode, and leaves the reward buffer, the
   completion statuses and local_step_count as they were. *)
Cex_C13_InvalidBatchSize ==
    Mismatched =>
        /\ raised = "InvalidBatchSize"
        /\ episode_reward_buffer = prev_buffer
        /\ episode_complete_statuses = prev_statuses
        /\ local_step_count = prev_count

-----------------------------------------------------------------------------
(* Properties of a degenerate cadence *)

(* Adding epoch_len to next_save again and again brings it beyond count.
   Counts are at most MaxStep and next_save starts at 0, so a positive
   epoch_len needs at most MaxStep + 1 additions. *)
CatchesUp(ns, count) == \E k \in 0 .. (MaxStep + 1) : ns + k * epoch_len > count

(* C14 as stated: there is no cadence that loops for ever or fires on
   every call: inside the while loop of a set_next_save(initial_count)
   with initial_count > 0, finitely many iterations end the loop; and
   after a save_model_if_epoch(step_count) that saved, finitely many more
   calls with that step_count bring one that does not save. *)
Cex_C14_NoDegenerateCadence ==
    /\ sv_pc = "set_next_save" => CatchesUp(next_save, sv_arg.arg)
    /\ SaveReturned /\ nb_saved > last_op.pre_saved =>
          CatchesUp(next_save, last_op.arg)

-----------------------------------------------------------------------------
(* Properties of the evaluation log *)

(* The number of epochs whose loop body has run to its end. *)
EpochsDone == IF ec_pc \in {"epochs", "finished"} THEN epoch_id ELSE Max(epoch_id - 1, 0)

(* Pass j of the passes ps has the largest mean, and no later pass has it. *)
IsSelected(ps, j) ==
    \A i \in 1 .. Len(ps) :
        /\ GreaterEq(ps[j].mean, ps[i].mean)
        /\ i > j => ~GreaterEq(ps[i].mean, ps[j].mean)

(* The line the passes ps of epoch e call for. *)
IsLineOf(line, e, ps) ==
    IF ps = <<>> THEN line = <<e, NegInf, None, 0>>
    ELSE \E j \in 1 .. Len(ps) :
            /\ IsSelected(ps, j)
            /\ line = <<e, ps[j].mean, ps[j].std, ps[j].model>>

(* C15 as stated: the evaluation log holds exactly one line per epoch
   that was evaluated, in the order of epochs(); the line of an epoch is
   epoch_id, best_mean, best_std, selected_model, where best_mean is the
   largest of the means of the passes of the epoch's checkpoints, and
   best_std and selected_model are those of the checkpoint whose pass
   attained it, the later one on a tie. *)
Cex_C15_EvalLog ==
    container = "EvalContainer" =>
        /\ Len(eval_log) = EpochsDone
        /\ \A e \in 1 .. Len(eval_log) : IsLineOf(eval_log[e], e, passes_log[e])

-----------------------------------------------------------------------------
(* Properties of the order of operations *)

(* The trace os is one environment reset followed by whole iterations,
   each of them act, step, reset_internals, ingest. *)
IsOrdered(os) ==
    /\ Len(os) >= 1
    /\ os[1] = "reset"
    /\ (Len(os) - 1) % Len(Iteration) = 0
    /\ \A k \in 2 .. Len(os) : os[k] = Iteration[((k - 2) % Len(Iteration)) + 1]

(* C20 as stated: in a pass of Evaluation.run and of EvalContainer.run,
   the environment is reset once, before the first step, and every
   iteration is, in this order: the policy acts, the environments step,
   the internal state is reset for the slots that reported terminal, the
   rewards are ingested. *)
Cex_C20_OperationOrder ==
    /\ container = "Evaluation" /\ env_steps >= 1 => IsOrdered(ops)
    /\ container = "EvalContainer" /\ ec_pc = "loop" /\ pass_steps >= 1 => IsOrdered(ops)


-----------------------------------------------------------------------------
(* Termination of Evaluation.run *)

(* Every slot has reported a step with terminal and non-empty info. *)
AllReported == \A i \in Slots : first_done[i] # 0

EvalDone == ev_pc = "done"

(* C16: once every slot has reported a step with terminal true and
   non-empty info, Evaluation.run ends: in its loop, the one step it can
   take is to return, no further environment step; when it has returned,
   every status is true and the result is the mean and the standard
   deviation of the buffer.  As long as some slot has not reported, run()
   cannot return and has no other way out: it is in its loop or before
   it. *)
Thm_C16_EvaluationTerminates ==
    container = "Evaluation" =>
        /\ ev_pc = "loop" /\ AllReported =>
              ENABLED Evaluation_return /\ ~ENABLED Evaluation_step
        /\ EvalDone =>
              /\ AllReported
              /\ All(episode_complete_statuses)
              /\ ev_result = [mean |-> Mean(episode_reward_buffer),
                              std2 |-> StdSquared(episode_reward_buffer)]
        /\ ~AllReported =>
              /\ ev_pc \in {"constructed", "loop"}
              /\ ~ENABLED Evaluation_return

(* run() has returned after slot 0 finished at the first step and slot 1
   two steps later; the mean is 3/2. *)
Wit_C16_EvaluationTerminates ==
    /\ EvalDone
    /\ first_done[0] = 1
    /\ first_done[1] = 3
    /\ ev_result.mean = [num |-> 3, den |-> NbEnv]
    /\ ev_result.std2.num > 0

=============================================================================
